---- MODULE Spec2Model ----
(***************************************************************************)
(* Model of the session hook useDxf (frontend/src/hooks/useDxf.ts) of the  *)
(* DXF natural-language editor, together with the remote document service *)
(* it talks to through services/api.ts.                                    *)
(*                                                                         *)
(* Every hook operation is an async function.  Its synchronous prefix (up  *)
(* to the first await) is one action; every remote call is a task in       *)
(* `inflight`, which the service serves (Serve) and whose response is then *)
(* delivered to the continuation that awaits it (Deliver).  React applies  *)
(* the setState calls of one continuation as one batch, so a continuation  *)
(* is one atomic step.                                                     *)
(***************************************************************************)
EXTENDS Integers, Sequences, FiniteSets, TLC

\* ------------------------------------------------------------------ bounds
MaxInflight == 2      \* remote calls in flight at the same time
MaxSessions == 1      \* sessions the service creates in one behaviour
MaxCommits  == 2      \* length of a session's edit timeline on the service
MaxHistory  == 3      \* entries of operationHistory

\* ------------------------------------------------------------ basic values
NullSid == 0                          \* sessionIdRef.current === null
Null    == "null"                     \* pendingCommand === null
Commands == {"c1", "c2"}              \* structured commands (OperationCommand)

\* operation and params of a command, as sent in the request body
Operation(c) == IF c = "c1" THEN "delete_by_color" ELSE "delete_part"
Params(c)    == IF c = "c1" THEN "color=yellow" ELSE "part_name=DF-01"

\* command lists an interpretation can return
InterpretLists == {<< >>, <<"c1">>, <<"c2", "c1">>}

\* a rendered view; the empty string '' of the code is EmptySvg
EmptySvg == [kind |-> "empty", doc |-> << >>, cmd |-> Null]
Render(doc) == [kind |-> "committed", doc |-> doc, cmd |-> Null]
PreviewSvg(doc, c) == [kind |-> "preview", doc |-> doc, cmd |-> c]
HasSvg(v) == v.kind # "empty"           \* truthiness of a string

\* the error / notice field
NoError == [kind |-> "null", n |-> 0]
Msg(k)  == [kind |-> k, n |-> 0]
AffectedMsg(n) == [kind |-> "affected", n |-> n]
\* messages an interpretation can carry (InterpretResponse.message)
InterpretMessages == {Msg("not_understood"), Msg("interpreted")}

\* dxfInfo
NullInfo == [session_id |-> NullSid]
Info(sid) == [session_id |-> sid]

\* parts
DF01 == [part_name |-> "DF-01", text_handle |-> "DF-01-anchor",
         linked_handles |-> <<"e1", "e2">>]
DF02 == [part_name |-> "DF-02", text_handle |-> "DF-02-anchor",
         linked_handles |-> <<"e3">>]
AnalysisResult(sid) == IF sid = 1 THEN <<DF01, DF02>> ELSE <<DF02>>

\* the response of a remote call; ok = FALSE is a rejected promise
NoRes == [ok |-> FALSE, success |-> FALSE, affected_count |-> 0,
          svg |-> EmptySvg, session_id |-> NullSid, commands |-> << >>,
          parts |-> << >>, message |-> NoError]
OkRes == [NoRes EXCEPT !.ok = TRUE, !.success = TRUE]

VARIABLES
    state,             \* AppState
    dxfInfo,           \* DxfInfo | null
    parts,             \* PartInfo[]
    svg,               \* current view
    originalSvg,       \* view before any edit
    pendingCommand,    \* OperationCommand | null
    operationHistory,  \* OperationResult[]
    error,             \* last error / notice
    sessionIdRef,      \* sessionIdRef.current
    inflight,          \* remote calls not yet delivered to their continuation
    sessions,          \* service: the documents, one per session id
    created,           \* service: number of sessions created so far
    lastOp,            \* the step taken last
    overlap,           \* the caller calls operations while others await
    selectedParts,     \* App: names of the selected parts
    hoverHandles,      \* App: identifiers of the hovered part
    highlightedHandles,\* App: identifiers the viewer highlights
    hovered,           \* the part name the pointer is over, Null if none
    mounted            \* the component has not been torn down

hookVars == <<state, dxfInfo, parts, svg, originalSvg, pendingCommand,
              operationHistory, error, sessionIdRef>>
serverVars == <<sessions, created>>
appVars == <<selectedParts, hoverHandles, highlightedHandles, hovered>>
vars == <<state, dxfInfo, parts, svg, originalSvg, pendingCommand,
          operationHistory, error, sessionIdRef, inflight, sessions, created,
          lastOp, overlap, selectedParts, hoverHandles, highlightedHandles,
          hovered, mounted>>

\* ------------------------------------------- the App's highlight effect
\* names the App's handlers are called with; no part list holds "DF-03"
PartNames == {"DF-01", "DF-02", "DF-03"}
Range(s) == {s[i] : i \in 1..Len(s)}
Present(ps, name) == \E i \in 1..Len(ps) : ps[i].part_name = name
\* parts.find(p => p.part_name === name): the first part of that name
FindPart(ps, name) ==
    ps[CHOOSE i \in 1..Len(ps) :
          /\ ps[i].part_name = name
          /\ \A j \in 1..(i - 1) : ps[j].part_name # name]
\* [part.text_handle, ...part.linked_handles]; a part without
\* linked_handles has the empty sequence here
PartHandles(part) == <<part.text_handle>> \o part.linked_handles
\* the loop over selectedParts: names with no part contribute nothing
RECURSIVE SelectedHandles(_, _)
SelectedHandles(sel, ps) ==
    IF sel = << >> THEN << >>
    ELSE ( IF Present(ps, Head(sel))
           THEN PartHandles(FindPart(ps, Head(sel)))
           ELSE << >> ) \o SelectedHandles(Tail(sel), ps)
\* [...new Set(s)]: the first occurrence of each element, in order
RECURSIVE Dedup(_)
Dedup(s) ==
    IF s = << >> THEN << >>
    ELSE LET d == Dedup(SubSeq(s, 1, Len(s) - 1))
         IN IF s[Len(s)] \in Range(d) THEN d ELSE Append(d, s[Len(s)])
\* what the effect on [selectedParts, hoverHandles, parts] stores
Highlight(sel, hov, ps) == Dedup(SelectedHandles(sel, ps) \o hov)

\* ------------------------------------------------------------ the service
NoSession == [live |-> FALSE, timeline |-> << >>, cursor |-> 0]
\* the committed document of a session: the commands applied, in order
Doc(sid) == SubSeq(sessions[sid].timeline, 1, sessions[sid].cursor)
Live(sid) == sid \in 1..MaxSessions /\ sessions[sid].live
AffectedCount(doc, c) == IF c = "c1" THEN 12 ELSE 3

Task(op, call, sid, c) ==
    [op |-> op, call |-> call, sid |-> sid, cmd |-> c,
     phase |-> "sent", res |-> NoRes]

\* the step taken last: a hook operation and its branch, or the service and
\* the call it served
Step(op, ev) == [op |-> op, ev |-> ev]
RemoveAt(s, i) == SubSeq(s, 1, i - 1) \o SubSeq(s, i + 1, Len(s))

InitHook ==
    /\ state = "initial"
    /\ dxfInfo = NullInfo
    /\ parts = << >>
    /\ svg = EmptySvg
    /\ originalSvg = EmptySvg
    /\ pendingCommand = Null
    /\ operationHistory = << >>
    /\ error = NoError
    /\ sessionIdRef = NullSid
    /\ inflight = << >>
    /\ sessions = [s \in 1..MaxSessions |-> NoSession]
    /\ created = 0
    /\ lastOp = Step("none", "none")
    /\ selectedParts = << >>
    /\ hoverHandles = << >>
    /\ highlightedHandles = << >>
    /\ hovered = Null
    /\ mounted = TRUE

\* the caller awaits each operation before it calls the next one
Init == InitHook /\ overlap = FALSE
\* the caller does not wait
InitOverlap == InitHook /\ overlap = TRUE

\* -------------------------------------------------- the service's replies
Sent(i, call) == inflight[i].phase = "sent" /\ inflight[i].call = call
Respond(i, r) ==
    /\ UNCHANGED <<overlap, appVars, mounted>>
    /\ inflight' = [inflight EXCEPT ![i] = [@ EXCEPT !.phase = "done", !.res = r]]
    /\ lastOp' = Step("service", inflight[i].call)

\* any call can fail: fetch rejects, or handleResponse throws on !response.ok
ServeFail(i) ==
    /\ inflight[i].phase = "sent"
    /\ Respond(i, NoRes)
    /\ UNCHANGED <<hookVars, serverVars>>

\* POST /dxf/upload : createSession
ServeUploadDxf(i) ==
    /\ Sent(i, "uploadDxf")
    /\ created < MaxSessions
    /\ created' = created + 1
    /\ sessions' = [sessions EXCEPT ![created + 1] = [NoSession EXCEPT !.live = TRUE]]
    /\ Respond(i, [OkRes EXCEPT !.session_id = created + 1])
    /\ UNCHANGED hookVars

\* GET /dxf/preview/{sid} : the view of the committed document
ServeGetPreview(i) ==
    /\ Sent(i, "getPreview")
    /\ Live(inflight[i].sid)
    /\ Respond(i, [OkRes EXCEPT !.svg = Render(Doc(inflight[i].sid))])
    /\ UNCHANGED <<hookVars, serverVars>>

\* POST /dxf/analyze-parts/{sid}
ServeAnalyzeParts(i) ==
    /\ Sent(i, "analyzeParts")
    /\ Live(inflight[i].sid)
    /\ Respond(i, [OkRes EXCEPT !.parts = AnalysisResult(inflight[i].sid)])
    /\ UNCHANGED <<hookVars, serverVars>>

\* POST /dxf/preview-operation : the effect of a command, nothing committed.
\* The OperationResult carries a success flag; preview_svg is present when
\* the operation succeeded.
ServePreviewOperation(i) ==
    /\ Sent(i, "previewOperation")
    /\ Live(inflight[i].sid)
    /\ \E success \in BOOLEAN :
         Respond(i, [OkRes EXCEPT
            !.success = success,
            !.affected_count =
                IF success THEN AffectedCount(Doc(inflight[i].sid), inflight[i].cmd) ELSE 0,
            !.svg = IF success
                    THEN PreviewSvg(Doc(inflight[i].sid), inflight[i].cmd)
                    ELSE EmptySvg])
    /\ UNCHANGED <<hookVars, serverVars>>

\* POST /dxf/execute : commits the command, once
CommitOn(s, c) ==
    [s EXCEPT !.timeline = Append(SubSeq(s.timeline, 1, s.cursor), c),
              !.cursor = s.cursor + 1]
ServeExecuteOperation(i) ==
    /\ Sent(i, "executeOperation")
    /\ Live(inflight[i].sid)
    /\ LET sid == inflight[i].sid
           c == inflight[i].cmd
       IN \/ /\ sessions[sid].cursor < MaxCommits
             /\ sessions' = [sessions EXCEPT ![sid] = CommitOn(@, c)]
             /\ Respond(i, [OkRes EXCEPT
                   !.affected_count = AffectedCount(Doc(sid), c),
                   !.svg = Render(Append(Doc(sid), c))])
          \/ /\ sessions' = sessions          \* the service reports a failure
             /\ Respond(i, [OkRes EXCEPT !.success = FALSE])
    /\ UNCHANGED <<hookVars, created>>

\* POST /dxf/undo, /dxf/redo : move the cursor of the timeline
ServeUndo(i) ==
    /\ Sent(i, "undo")
    /\ Live(inflight[i].sid)
    /\ LET sid == inflight[i].sid
       IN IF sessions[sid].cursor > 0
          THEN /\ sessions' = [sessions EXCEPT ![sid].cursor = @ - 1]
               /\ Respond(i, [OkRes EXCEPT
                     !.svg = Render(SubSeq(sessions[sid].timeline, 1,
                                           sessions[sid].cursor - 1))])
          ELSE /\ sessions' = sessions        \* nothing to undo
               /\ Respond(i, [OkRes EXCEPT !.success = FALSE])
    /\ UNCHANGED <<hookVars, created>>

ServeRedo(i) ==
    /\ Sent(i, "redo")
    /\ Live(inflight[i].sid)
    /\ LET sid == inflight[i].sid
       IN IF sessions[sid].cursor < Len(sessions[sid].timeline)
          THEN /\ sessions' = [sessions EXCEPT ![sid].cursor = @ + 1]
               /\ Respond(i, [OkRes EXCEPT
                     !.svg = Render(SubSeq(sessions[sid].timeline, 1,
                                           sessions[sid].cursor + 1))])
          ELSE /\ sessions' = sessions        \* nothing to redo
               /\ Respond(i, [OkRes EXCEPT !.success = FALSE])
    /\ UNCHANGED <<hookVars, created>>

\* POST /interpret/parse : no effect on the document
ServeInterpret(i) ==
    /\ Sent(i, "interpretCommand")
    /\ \E success \in BOOLEAN, cs \in InterpretLists, m \in InterpretMessages :
         Respond(i, [OkRes EXCEPT !.success = success, !.commands = cs,
                                  !.message = m])
    /\ UNCHANGED <<hookVars, serverVars>>

\* DELETE /dxf/session/{sid}
ServeDeleteSession(i) ==
    /\ Sent(i, "deleteSession")
    /\ Live(inflight[i].sid)
    /\ sessions' = [sessions EXCEPT ![inflight[i].sid] = NoSession]
    /\ Respond(i, OkRes)
    /\ UNCHANGED <<hookVars, created>>

\* ------------------------------------------------------ the hook: calls
\* room in operationHistory for the calls that append to it (bound)
Appenders == {i \in 1..Len(inflight) : inflight[i].op \in {"executeOperation", "undo", "redo"}}
HistRoom == Len(operationHistory) + Cardinality(Appenders) < MaxHistory
\* no operation of the hook is awaiting a response (part analysis is not one)
Quiet == \A i \in 1..Len(inflight) : inflight[i].op = "analyzeParts"
\* an operation can be called: room for one more remote call (bound), and
\* the caller's discipline
CanCall == mounted /\ Len(inflight) < MaxInflight /\ (overlap \/ Quiet)

\* the step records itself; a step of the hook leaves the App's selection
\* and hover alone
Took(op, ev) ==
    /\ lastOp' = Step(op, ev)
    /\ UNCHANGED <<overlap, selectedParts, hoverHandles, hovered, mounted>>
\* the highlight effect after the render that follows a step
Rendered ==
    highlightedHandles' = Highlight(selectedParts', hoverHandles', parts')
Send(t) == inflight' = Append(inflight, t)
Resolved(i, op, call) ==
    /\ mounted
    /\ inflight[i].phase = "done"
    /\ inflight[i].op = op
    /\ inflight[i].call = call
Finish(i) == inflight' = RemoveAt(inflight, i)
Continue(i, t) == inflight' = [inflight EXCEPT ![i] = t]

uploadFile ==
    /\ CanCall
    /\ state' = "loading"
    /\ error' = NoError
    /\ Send(Task("uploadFile", "uploadDxf", NullSid, Null))
    /\ Took("uploadFile", "call")
    /\ UNCHANGED <<dxfInfo, parts, svg, originalSvg, pendingCommand,
                   operationHistory, sessionIdRef, serverVars>>
    /\ Rendered

\* after `await api.uploadDxf(file)`
uploadFile_uploaded(i) ==
    /\ Resolved(i, "uploadFile", "uploadDxf")
    /\ IF inflight[i].res.ok
       THEN /\ dxfInfo' = Info(inflight[i].res.session_id)
            /\ sessionIdRef' = inflight[i].res.session_id
            /\ Continue(i, Task("uploadFile", "getPreview",
                                inflight[i].res.session_id, Null))
            /\ Took("uploadFile", "created")
            /\ UNCHANGED <<state, error>>
       ELSE /\ error' = Msg("upload_failed")
            /\ state' = "error"
            /\ Finish(i)
            /\ Took("uploadFile", "fail")
            /\ UNCHANGED <<dxfInfo, sessionIdRef>>
    /\ UNCHANGED <<parts, svg, originalSvg, pendingCommand, operationHistory,
                   serverVars>>
    /\ Rendered

\* uploadFile's last continuation as it would be without setOriginalSvg
uploadFile_noOriginal(i) ==
    /\ Resolved(i, "uploadFile", "getPreview")
    /\ IF inflight[i].res.ok
       THEN /\ svg' = inflight[i].res.svg
            /\ Continue(i, Task("analyzeParts", "analyzeParts", inflight[i].sid, Null))
            /\ state' = "ready"
            /\ Took("uploadFile", "ok")
            /\ UNCHANGED error
       ELSE /\ error' = Msg("upload_failed")
            /\ state' = "error"
            /\ Finish(i)
            /\ Took("uploadFile", "fail")
            /\ UNCHANGED svg
    /\ UNCHANGED <<dxfInfo, parts, originalSvg, pendingCommand, operationHistory,
                   sessionIdRef, serverVars>>
    /\ Rendered

\* after `await api.getPreview(info.session_id)`
uploadFile_previewed(i) ==
    /\ Resolved(i, "uploadFile", "getPreview")
    /\ IF inflight[i].res.ok
       THEN /\ svg' = inflight[i].res.svg
            /\ originalSvg' = inflight[i].res.svg
            /\ Continue(i, Task("analyzeParts", "analyzeParts", inflight[i].sid, Null))
            /\ state' = "ready"
            /\ Took("uploadFile", "ok")
            /\ UNCHANGED error
       ELSE /\ error' = Msg("upload_failed")
            /\ state' = "error"
            /\ Finish(i)
            /\ Took("uploadFile", "fail")
            /\ UNCHANGED <<svg, originalSvg>>
    /\ UNCHANGED <<dxfInfo, parts, pendingCommand, operationHistory,
                   sessionIdRef, serverVars>>
    /\ Rendered

\* the part analysis as it would be if its failure were reported like the
\* failure of an operation
analyzeParts_reportsFailure(i) ==
    /\ Resolved(i, "analyzeParts", "analyzeParts")
    /\ parts' = IF inflight[i].res.ok THEN inflight[i].res.parts ELSE parts
    /\ error' = IF inflight[i].res.ok THEN error ELSE Msg("analysis_failed")
    /\ state' = IF inflight[i].res.ok THEN state ELSE "ready"
    /\ Finish(i)
    /\ Took("analyzeParts", IF inflight[i].res.ok THEN "ok" ELSE "fail")
    /\ UNCHANGED <<dxfInfo, svg, originalSvg, pendingCommand,
                   operationHistory, sessionIdRef, serverVars>>
    /\ Rendered

\* api.analyzeParts(...).then(setParts).catch(console.error)
analyzeParts_settled(i) ==
    /\ Resolved(i, "analyzeParts", "analyzeParts")
    /\ parts' = IF inflight[i].res.ok THEN inflight[i].res.parts ELSE parts
    /\ Finish(i)
    /\ Took("analyzeParts", IF inflight[i].res.ok THEN "ok" ELSE "fail")
    /\ UNCHANGED <<state, dxfInfo, svg, originalSvg, pendingCommand,
                   operationHistory, error, sessionIdRef, serverVars>>
    /\ Rendered

interpretCommand ==
    /\ CanCall
    /\ IF sessionIdRef = NullSid
       THEN /\ error' = Msg("no_file")
            /\ Took("interpretCommand", "noop")
            /\ UNCHANGED <<state, inflight>>
       ELSE /\ state' = "loading"
            /\ error' = NoError
            /\ Send(Task("interpretCommand", "interpretCommand", sessionIdRef, Null))
            /\ Took("interpretCommand", "call")
    /\ UNCHANGED <<dxfInfo, parts, svg, originalSvg, pendingCommand,
                   operationHistory, sessionIdRef, serverVars>>
    /\ Rendered

\* interpretCommand's continuation as it would be if it did not read
\* result.success
interpretCommand_ignoresSuccess(i) ==
    /\ Resolved(i, "interpretCommand", "interpretCommand")
    /\ LET r == inflight[i].res IN
       IF ~r.ok
       THEN /\ error' = Msg("interpret_failed")
            /\ state' = "ready"
            /\ Finish(i)
            /\ Took("interpretCommand", "fail")
            /\ UNCHANGED pendingCommand
       ELSE IF Len(r.commands) = 0
       THEN /\ error' = r.message
            /\ state' = "ready"
            /\ Finish(i)
            /\ Took("interpretCommand", "rejected")
            /\ UNCHANGED pendingCommand
       ELSE /\ pendingCommand' = r.commands[1]
            /\ IF sessionIdRef = NullSid
               THEN /\ Finish(i)
                    /\ Took("interpretCommand", "dropped")
                    /\ UNCHANGED <<state, error>>
               ELSE /\ state' = "previewing"
                    /\ error' = NoError
                    /\ Continue(i, Task("previewOperation", "previewOperation",
                                        sessionIdRef, r.commands[1]))
                    /\ Took("interpretCommand", "staged")
    /\ UNCHANGED <<dxfInfo, parts, svg, originalSvg, operationHistory,
                   sessionIdRef, serverVars>>
    /\ Rendered

\* interpretCommand's continuation as it would be if it took the last
\* command of the list
interpretCommand_stagesLast(i) ==
    /\ Resolved(i, "interpretCommand", "interpretCommand")
    /\ LET r == inflight[i].res IN
       IF ~r.ok
       THEN /\ error' = Msg("interpret_failed")
            /\ state' = "ready"
            /\ Finish(i)
            /\ Took("interpretCommand", "fail")
            /\ UNCHANGED pendingCommand
       ELSE IF ~r.success \/ Len(r.commands) = 0
       THEN /\ error' = r.message
            /\ state' = "ready"
            /\ Finish(i)
            /\ Took("interpretCommand", "rejected")
            /\ UNCHANGED pendingCommand
       ELSE /\ pendingCommand' = r.commands[Len(r.commands)]
            /\ IF sessionIdRef = NullSid
               THEN /\ Finish(i)
                    /\ Took("interpretCommand", "dropped")
                    /\ UNCHANGED <<state, error>>
               ELSE /\ state' = "previewing"
                    /\ error' = NoError
                    /\ Continue(i, Task("previewOperation", "previewOperation",
                                        sessionIdRef, r.commands[Len(r.commands)]))
                    /\ Took("interpretCommand", "staged")
    /\ UNCHANGED <<dxfInfo, parts, svg, originalSvg, operationHistory,
                   sessionIdRef, serverVars>>
    /\ Rendered

\* after `await api.interpretCommand(...)`; on a command it runs the
\* synchronous prefix of previewOperation(command) in the same step
interpretCommand_resumed(i) ==
    /\ Resolved(i, "interpretCommand", "interpretCommand")
    /\ LET r == inflight[i].res IN
       IF ~r.ok
       THEN /\ error' = Msg("interpret_failed")
            /\ state' = "ready"
            /\ Finish(i)
            /\ Took("interpretCommand", "fail")
            /\ UNCHANGED pendingCommand
       ELSE IF ~r.success \/ Len(r.commands) = 0
       THEN /\ error' = r.message
            /\ state' = "ready"
            /\ Finish(i)
            /\ Took("interpretCommand", "rejected")
            /\ UNCHANGED pendingCommand
       ELSE /\ pendingCommand' = r.commands[1]
            /\ IF sessionIdRef = NullSid
               THEN /\ Finish(i)
                    /\ Took("interpretCommand", "dropped")
                    /\ UNCHANGED <<state, error>>
               ELSE /\ state' = "previewing"
                    /\ error' = NoError
                    /\ Continue(i, Task("previewOperation", "previewOperation",
                                        sessionIdRef, r.commands[1]))
                    /\ Took("interpretCommand", "staged")
    /\ UNCHANGED <<dxfInfo, parts, svg, originalSvg, operationHistory,
                   sessionIdRef, serverVars>>
    /\ Rendered

\* previewOperation as it would be if it sent the command for commit
previewOperation_commits(command) ==
    /\ CanCall
    /\ IF sessionIdRef = NullSid
       THEN /\ Took("previewOperation", "noop")
            /\ UNCHANGED <<pendingCommand, state, error, inflight>>
       ELSE /\ pendingCommand' = command
            /\ state' = "previewing"
            /\ error' = NoError
            /\ Send(Task("previewOperation", "executeOperation", sessionIdRef, command))
            /\ Took("previewOperation", "call")
    /\ UNCHANGED <<dxfInfo, parts, svg, originalSvg, operationHistory,
                   sessionIdRef, serverVars>>
    /\ Rendered

\* previewOperation as it would be if a staged command were not replaced
previewOperation_keepsFirst(command) ==
    /\ CanCall
    /\ IF sessionIdRef = NullSid
       THEN /\ Took("previewOperation", "noop")
            /\ UNCHANGED <<pendingCommand, state, error, inflight>>
       ELSE /\ pendingCommand' = IF pendingCommand = Null THEN command
                               ELSE pendingCommand
            /\ state' = "previewing"
            /\ error' = NoError
            /\ Send(Task("previewOperation", "previewOperation", sessionIdRef, command))
            /\ Took("previewOperation", "call")
    /\ UNCHANGED <<dxfInfo, parts, svg, originalSvg, operationHistory,
                   sessionIdRef, serverVars>>
    /\ Rendered

previewOperation(command) ==
    /\ CanCall
    /\ IF sessionIdRef = NullSid
       THEN /\ Took("previewOperation", "noop")
            /\ UNCHANGED <<pendingCommand, state, error, inflight>>
       ELSE /\ pendingCommand' = command
            /\ state' = "previewing"
            /\ error' = NoError
            /\ Send(Task("previewOperation", "previewOperation", sessionIdRef, command))
            /\ Took("previewOperation", "call")
    /\ UNCHANGED <<dxfInfo, parts, svg, originalSvg, operationHistory,
                   sessionIdRef, serverVars>>
    /\ Rendered

\* previewOperation's continuation as it would be if its catch did not
\* return to 'ready'
previewOperation_staysPreviewing(i) ==
    /\ Resolved(i, "previewOperation", "previewOperation")
    /\ LET r == inflight[i].res IN
       IF r.ok
       THEN /\ svg' = IF HasSvg(r.svg) THEN r.svg ELSE svg
            /\ error' = AffectedMsg(r.affected_count)
            /\ Took("previewOperation", "ok")
       ELSE /\ error' = Msg("preview_failed")
            /\ Took("previewOperation", "fail")
            /\ UNCHANGED svg
    /\ Finish(i)
    /\ UNCHANGED <<state, dxfInfo, parts, originalSvg, pendingCommand,
                   operationHistory, sessionIdRef, serverVars>>
    /\ Rendered

\* after `await api.previewOperation(...)`
previewOperation_resumed(i) ==
    /\ Resolved(i, "previewOperation", "previewOperation")
    /\ LET r == inflight[i].res IN
       IF r.ok
       THEN /\ svg' = IF HasSvg(r.svg) THEN r.svg ELSE svg
            /\ error' = AffectedMsg(r.affected_count)
            /\ Took("previewOperation", "ok")
            /\ UNCHANGED state
       ELSE /\ error' = Msg("preview_failed")
            /\ state' = "ready"
            /\ Took("previewOperation", "fail")
            /\ UNCHANGED svg
    /\ Finish(i)
    /\ UNCHANGED <<dxfInfo, parts, originalSvg, pendingCommand,
                   operationHistory, sessionIdRef, serverVars>>
    /\ Rendered

\* executeOperation as it would be without the `!pendingCommand` guard
executeOperation_unguarded ==
    /\ CanCall
    /\ IF sessionIdRef = NullSid
       THEN /\ Took("executeOperation", "noop")
            /\ UNCHANGED <<state, error, inflight>>
       ELSE /\ HistRoom
            /\ state' = "executing"
            /\ error' = NoError
            /\ Send(Task("executeOperation", "executeOperation", sessionIdRef,
                         pendingCommand))
            /\ Took("executeOperation", "call")
    /\ UNCHANGED <<dxfInfo, parts, svg, originalSvg, pendingCommand,
                   operationHistory, sessionIdRef, serverVars>>
    /\ Rendered

executeOperation ==
    /\ CanCall
    /\ IF sessionIdRef = NullSid \/ pendingCommand = Null
       THEN /\ Took("executeOperation", "noop")
            /\ UNCHANGED <<state, error, inflight>>
       ELSE /\ HistRoom
            /\ state' = "executing"
            /\ error' = NoError
            /\ Send(Task("executeOperation", "executeOperation", sessionIdRef,
                         pendingCommand))
            /\ Took("executeOperation", "call")
    /\ UNCHANGED <<dxfInfo, parts, svg, originalSvg, pendingCommand,
                   operationHistory, sessionIdRef, serverVars>>
    /\ Rendered

\* executeOperation's continuation as it would be without
\* setPendingCommand(null) and setError(null)
executeOperation_keepsPending(i) ==
    /\ Resolved(i, "executeOperation", "executeOperation")
    /\ LET r == inflight[i].res IN
       IF r.ok
       THEN /\ svg' = IF HasSvg(r.svg) THEN r.svg ELSE svg
            /\ operationHistory' = Append(operationHistory, r)
            /\ state' = "ready"
            /\ Took("executeOperation", "ok")
            /\ UNCHANGED <<pendingCommand, error>>
       ELSE /\ error' = Msg("execute_failed")
            /\ state' = "ready"
            /\ Took("executeOperation", "fail")
            /\ UNCHANGED <<svg, operationHistory, pendingCommand>>
    /\ Finish(i)
    /\ UNCHANGED <<dxfInfo, parts, originalSvg, sessionIdRef, serverVars>>
    /\ Rendered

\* executeOperation's continuation as it would be if a commit also moved
\* the original view to the committed one
executeOperation_rebasesOriginal(i) ==
    /\ Resolved(i, "executeOperation", "executeOperation")
    /\ LET r == inflight[i].res IN
       IF r.ok
       THEN /\ svg' = IF HasSvg(r.svg) THEN r.svg ELSE svg
            /\ originalSvg' = IF HasSvg(r.svg) THEN r.svg ELSE originalSvg
            /\ operationHistory' = Append(operationHistory, r)
            /\ pendingCommand' = Null
            /\ error' = NoError
            /\ state' = "ready"
            /\ Took("executeOperation", "ok")
       ELSE /\ error' = Msg("execute_failed")
            /\ state' = "ready"
            /\ Took("executeOperation", "fail")
            /\ UNCHANGED <<svg, originalSvg, operationHistory, pendingCommand>>
    /\ Finish(i)
    /\ UNCHANGED <<dxfInfo, parts, sessionIdRef, serverVars>>
    /\ Rendered

\* after `await api.executeOperation(...)`
executeOperation_resumed(i) ==
    /\ Resolved(i, "executeOperation", "executeOperation")
    /\ LET r == inflight[i].res IN
       IF r.ok
       THEN /\ svg' = IF HasSvg(r.svg) THEN r.svg ELSE svg
            /\ operationHistory' = Append(operationHistory, r)
            /\ pendingCommand' = Null
            /\ error' = NoError
            /\ state' = "ready"
            /\ Took("executeOperation", "ok")
       ELSE /\ error' = Msg("execute_failed")
            /\ state' = "ready"
            /\ Took("executeOperation", "fail")
            /\ UNCHANGED <<svg, operationHistory, pendingCommand>>
    /\ Finish(i)
    /\ UNCHANGED <<dxfInfo, parts, originalSvg, sessionIdRef, serverVars>>
    /\ Rendered

cancelOperation ==
    /\ CanCall
    /\ IF sessionIdRef = NullSid
       THEN /\ Took("cancelOperation", "noop")
            /\ UNCHANGED <<pendingCommand, error, inflight>>
       ELSE /\ pendingCommand' = Null
            /\ error' = NoError
            /\ Send(Task("cancelOperation", "getPreview", sessionIdRef, Null))
            /\ Took("cancelOperation", "call")
    /\ UNCHANGED <<state, dxfInfo, parts, svg, originalSvg, operationHistory,
                   sessionIdRef, serverVars>>
    /\ Rendered

\* cancelOperation's continuation as it would be without setSvg(preview.svg)
cancelOperation_keepsView(i) ==
    /\ Resolved(i, "cancelOperation", "getPreview")
    /\ state' = "ready"
    /\ Took("cancelOperation", IF inflight[i].res.ok THEN "ok" ELSE "fail")
    /\ Finish(i)
    /\ UNCHANGED <<dxfInfo, parts, svg, originalSvg, pendingCommand,
                   operationHistory, error, sessionIdRef, serverVars>>
    /\ Rendered

\* after `await api.getPreview(...)` inside the try of cancelOperation
cancelOperation_resumed(i) ==
    /\ Resolved(i, "cancelOperation", "getPreview")
    /\ svg' = IF inflight[i].res.ok THEN inflight[i].res.svg ELSE svg
    /\ state' = "ready"
    /\ Took("cancelOperation", IF inflight[i].res.ok THEN "ok" ELSE "fail")
    /\ Finish(i)
    /\ UNCHANGED <<dxfInfo, parts, originalSvg, pendingCommand,
                   operationHistory, error, sessionIdRef, serverVars>>
    /\ Rendered

undo ==
    /\ CanCall
    /\ IF sessionIdRef = NullSid
       THEN /\ Took("undo", "noop")
            /\ UNCHANGED <<state, inflight>>
       ELSE /\ HistRoom
            /\ state' = "executing"
            /\ Send(Task("undo", "undo", sessionIdRef, Null))
            /\ Took("undo", "call")
    /\ UNCHANGED <<dxfInfo, parts, svg, originalSvg, pendingCommand,
                   operationHistory, error, sessionIdRef, serverVars>>
    /\ Rendered

\* undo's continuation as it would be if its catch set state 'error'
undo_failsToError(i) ==
    /\ Resolved(i, "undo", "undo")
    /\ LET r == inflight[i].res IN
       IF r.ok
       THEN /\ svg' = r.svg
            /\ operationHistory' = Append(operationHistory, r)
            /\ error' = Msg("undone")
            /\ state' = "ready"
            /\ Took("undo", "ok")
       ELSE /\ error' = Msg("undo_failed")
            /\ state' = "error"
            /\ Took("undo", "fail")
            /\ UNCHANGED <<svg, operationHistory>>
    /\ Finish(i)
    /\ UNCHANGED <<dxfInfo, parts, originalSvg, pendingCommand, sessionIdRef,
                   serverVars>>
    /\ Rendered

undo_resumed(i) ==
    /\ Resolved(i, "undo", "undo")
    /\ LET r == inflight[i].res IN
       IF r.ok
       THEN /\ svg' = r.svg
            /\ operationHistory' = Append(operationHistory, r)
            /\ error' = Msg("undone")
            /\ state' = "ready"
            /\ Took("undo", "ok")
       ELSE /\ error' = Msg("undo_failed")
            /\ state' = "ready"
            /\ Took("undo", "fail")
            /\ UNCHANGED <<svg, operationHistory>>
    /\ Finish(i)
    /\ UNCHANGED <<dxfInfo, parts, originalSvg, pendingCommand, sessionIdRef,
                   serverVars>>
    /\ Rendered

redo ==
    /\ CanCall
    /\ IF sessionIdRef = NullSid
       THEN /\ Took("redo", "noop")
            /\ UNCHANGED <<state, inflight>>
       ELSE /\ HistRoom
            /\ state' = "executing"
            /\ Send(Task("redo", "redo", sessionIdRef, Null))
            /\ Took("redo", "call")
    /\ UNCHANGED <<dxfInfo, parts, svg, originalSvg, pendingCommand,
                   operationHistory, error, sessionIdRef, serverVars>>
    /\ Rendered

\* redo's continuation as it would be if its catch left the state alone
redo_staysExecuting(i) ==
    /\ Resolved(i, "redo", "redo")
    /\ LET r == inflight[i].res IN
       IF r.ok
       THEN /\ svg' = r.svg
            /\ operationHistory' = Append(operationHistory, r)
            /\ error' = Msg("redone")
            /\ state' = "ready"
            /\ Took("redo", "ok")
       ELSE /\ error' = Msg("redo_failed")
            /\ UNCHANGED state
            /\ Took("redo", "fail")
            /\ UNCHANGED <<svg, operationHistory>>
    /\ Finish(i)
    /\ UNCHANGED <<dxfInfo, parts, originalSvg, pendingCommand, sessionIdRef,
                   serverVars>>
    /\ Rendered

redo_resumed(i) ==
    /\ Resolved(i, "redo", "redo")
    /\ LET r == inflight[i].res IN
       IF r.ok
       THEN /\ svg' = r.svg
            /\ operationHistory' = Append(operationHistory, r)
            /\ error' = Msg("redone")
            /\ state' = "ready"
            /\ Took("redo", "ok")
       ELSE /\ error' = Msg("redo_failed")
            /\ state' = "ready"
            /\ Took("redo", "fail")
            /\ UNCHANGED <<svg, operationHistory>>
    /\ Finish(i)
    /\ UNCHANGED <<dxfInfo, parts, originalSvg, pendingCommand, sessionIdRef,
                   serverVars>>
    /\ Rendered

\* the assignments of reset after the release of the remote session
ResetLocal ==
    /\ sessionIdRef' = NullSid
    /\ dxfInfo' = NullInfo
    /\ parts' = << >>
    /\ svg' = EmptySvg
    /\ pendingCommand' = Null
    /\ operationHistory' = << >>
    /\ error' = NoError
    /\ state' = "initial"
    /\ UNCHANGED originalSvg

reset ==
    /\ CanCall
    /\ IF sessionIdRef = NullSid
       THEN /\ ResetLocal
            /\ Took("reset", "ok")
            /\ UNCHANGED inflight
       ELSE /\ Send(Task("reset", "deleteSession", sessionIdRef, Null))
            /\ Took("reset", "call")
            /\ UNCHANGED hookVars
    /\ UNCHANGED serverVars
    /\ Rendered

\* after `await api.deleteSession(...).catch(() => { })`
reset_resumed(i) ==
    /\ Resolved(i, "reset", "deleteSession")
    /\ ResetLocal
    /\ Finish(i)
    /\ Took("reset", "ok")
    /\ UNCHANGED serverVars
    /\ Rendered

\* the cleanup as it would be if it cleared the local state as reset does
teardown_resets ==
    /\ CanCall
    /\ mounted' = FALSE
    /\ IF sessionIdRef = NullSid
       THEN /\ lastOp' = Step("teardown", "noop")
            /\ UNCHANGED inflight
       ELSE /\ Send(Task("teardown", "deleteSession", sessionIdRef, Null))
            /\ lastOp' = Step("teardown", "call")
    /\ ResetLocal
    /\ UNCHANGED <<serverVars, overlap, selectedParts, hoverHandles, hovered>>
    /\ Rendered

\* the cleanup of the mount effect: the component goes away; its setters
\* have no effect from here on
teardown ==
    /\ CanCall
    /\ mounted' = FALSE
    /\ IF sessionIdRef = NullSid
       THEN /\ lastOp' = Step("teardown", "noop")
            /\ UNCHANGED inflight
       ELSE /\ Send(Task("teardown", "deleteSession", sessionIdRef, Null))
            /\ lastOp' = Step("teardown", "call")
    /\ UNCHANGED <<hookVars, serverVars, overlap, appVars>>

\* `api.deleteSession(...).catch(() => { })` of the cleanup settles
teardown_settled(i) ==
    /\ ~mounted
    /\ inflight[i].phase = "done"
    /\ inflight[i].op = "teardown"
    /\ Finish(i)
    /\ lastOp' = Step("teardown", IF inflight[i].res.ok THEN "released" ELSE "ignored")
    /\ UNCHANGED <<hookVars, serverVars, overlap, appVars, mounted>>

\* ------------------------------------------------- the App's handlers
\* prev.includes(p) ? prev.filter(x => x !== p) : [...prev, p]
Toggle(sel, p) ==
    IF p \in Range(sel)
    THEN SelectSeq(sel, LAMBDA x : x # p)
    ELSE Append(sel, p)
\* parts.map(p => p.part_name)
PartNamesOf(ps) == [i \in 1..Len(ps) |-> ps[i].part_name]

\* a handler of the App sets selection or hover; the hook and the service
\* are not involved, and the highlight effect runs on the new values
Handled(op, arg) ==
    /\ lastOp' = Step(op, arg)
    /\ UNCHANGED <<hookVars, inflight, serverVars, overlap, mounted>>
    /\ Rendered

\* the toggle as it would be if it never removed a name
handleTogglePartSelection_addsOnly(p) ==
    /\ selectedParts' = IF p \in Range(selectedParts)
                        THEN selectedParts
                        ELSE Append(selectedParts, p)
    /\ UNCHANGED <<hoverHandles, hovered>>
    /\ Handled("handleTogglePartSelection", p)

handleTogglePartSelection(p) ==
    /\ selectedParts' = Toggle(selectedParts, p)
    /\ UNCHANGED <<hoverHandles, hovered>>
    /\ Handled("handleTogglePartSelection", p)

handleSelectAll ==
    /\ selectedParts' = PartNamesOf(parts)
    /\ UNCHANGED <<hoverHandles, hovered>>
    /\ Handled("handleSelectAll", "set")

\* clear-selection as it would be if it cleared the hover as well
handleClearSelection_clearsHover ==
    /\ selectedParts' = << >>
    /\ hoverHandles' = << >>
    /\ UNCHANGED hovered
    /\ Handled("handleClearSelection", "set")

handleClearSelection ==
    /\ selectedParts' = << >>
    /\ UNCHANGED <<hoverHandles, hovered>>
    /\ Handled("handleClearSelection", "set")

handleHoverPart(p) ==
    /\ hoverHandles' = IF Present(parts, p)
                       THEN PartHandles(FindPart(parts, p))
                       ELSE hoverHandles
    /\ hovered' = p
    /\ UNCHANGED selectedParts
    /\ Handled("handleHoverPart", p)

handleLeavePart ==
    /\ hoverHandles' = << >>
    /\ hovered' = Null
    /\ UNCHANGED selectedParts
    /\ Handled("handleLeavePart", "set")

\* ------------------------------------------------------- specifications
Next ==
    \/ uploadFile
    \/ interpretCommand
    \/ \E c \in Commands : previewOperation(c)
    \/ executeOperation
    \/ cancelOperation
    \/ undo
    \/ redo
    \/ reset
    \/ \E i \in 1..Len(inflight) : uploadFile_uploaded(i)
    \/ \E i \in 1..Len(inflight) : uploadFile_previewed(i)
    \/ \E i \in 1..Len(inflight) : analyzeParts_settled(i)
    \/ \E i \in 1..Len(inflight) : interpretCommand_resumed(i)
    \/ \E i \in 1..Len(inflight) : previewOperation_resumed(i)
    \/ \E i \in 1..Len(inflight) : executeOperation_resumed(i)
    \/ \E i \in 1..Len(inflight) : cancelOperation_resumed(i)
    \/ \E i \in 1..Len(inflight) : undo_resumed(i)
    \/ \E i \in 1..Len(inflight) : redo_resumed(i)
    \/ \E i \in 1..Len(inflight) : reset_resumed(i)
    \/ \E i \in 1..Len(inflight) : ServeFail(i)
    \/ \E i \in 1..Len(inflight) : ServeUploadDxf(i)
    \/ \E i \in 1..Len(inflight) : ServeGetPreview(i)
    \/ \E i \in 1..Len(inflight) : ServeAnalyzeParts(i)
    \/ \E i \in 1..Len(inflight) : ServePreviewOperation(i)
    \/ \E i \in 1..Len(inflight) : ServeExecuteOperation(i)
    \/ \E i \in 1..Len(inflight) : ServeUndo(i)
    \/ \E i \in 1..Len(inflight) : ServeRedo(i)
    \/ \E i \in 1..Len(inflight) : ServeInterpret(i)
    \/ \E i \in 1..Len(inflight) : ServeDeleteSession(i)

\* One operation at a time: an operation of the hook is called only when no
\* other one awaits a response; the part analysis runs alongside.
Spec == Init /\ [][Next]_vars

\* Overlapping calls: an operation may be called while others await.
SpecOverlap == InitOverlap /\ [][Next]_vars

\* The App's selection and hover handlers, with the operations of the hook
\* that change the part list: uploadFile with its part analysis, and reset.
NextApp ==
    \/ \E p \in PartNames : handleTogglePartSelection(p)
    \/ handleSelectAll
    \/ handleClearSelection
    \/ \E p \in PartNames : handleHoverPart(p)
    \/ handleLeavePart
    \/ uploadFile
    \/ reset
    \/ \E i \in 1..Len(inflight) : uploadFile_uploaded(i)
    \/ \E i \in 1..Len(inflight) : uploadFile_previewed(i)
    \/ \E i \in 1..Len(inflight) : analyzeParts_settled(i)
    \/ \E i \in 1..Len(inflight) : reset_resumed(i)
    \/ \E i \in 1..Len(inflight) : ServeFail(i)
    \/ \E i \in 1..Len(inflight) : ServeUploadDxf(i)
    \/ \E i \in 1..Len(inflight) : ServeGetPreview(i)
    \/ \E i \in 1..Len(inflight) : ServeAnalyzeParts(i)
    \/ \E i \in 1..Len(inflight) : ServeDeleteSession(i)

SpecApp == Init /\ [][NextApp]_vars

\* the file input, which the App renders in state 'initial' only
handleFileUpload == state = "initial" /\ uploadFile

\* Overlapping calls of preview, commit and cancel on a session uploaded
\* through the App's file input: an operation is called while others await.
NextEdit ==
    \/ handleFileUpload
    \/ \E c \in Commands : previewOperation(c)
    \/ executeOperation
    \/ cancelOperation
    \/ \E i \in 1..Len(inflight) : uploadFile_uploaded(i)
    \/ \E i \in 1..Len(inflight) : uploadFile_previewed(i)
    \/ \E i \in 1..Len(inflight) : analyzeParts_settled(i)
    \/ \E i \in 1..Len(inflight) : previewOperation_resumed(i)
    \/ \E i \in 1..Len(inflight) : executeOperation_resumed(i)
    \/ \E i \in 1..Len(inflight) : cancelOperation_resumed(i)
    \/ \E i \in 1..Len(inflight) : ServeFail(i)
    \/ \E i \in 1..Len(inflight) : ServeUploadDxf(i)
    \/ \E i \in 1..Len(inflight) : ServeGetPreview(i)
    \/ \E i \in 1..Len(inflight) : ServeAnalyzeParts(i)
    \/ \E i \in 1..Len(inflight) : ServePreviewOperation(i)
    \/ \E i \in 1..Len(inflight) : ServeExecuteOperation(i)

SpecEdit == InitOverlap /\ [][NextEdit]_vars

\* The reset button, which the App never disables, pressed while a preview
\* or an undo of the session awaits its response.
NextReset ==
    \/ handleFileUpload
    \/ \E c \in Commands : previewOperation(c)
    \/ undo
    \/ reset
    \/ \E i \in 1..Len(inflight) : uploadFile_uploaded(i)
    \/ \E i \in 1..Len(inflight) : uploadFile_previewed(i)
    \/ \E i \in 1..Len(inflight) : analyzeParts_settled(i)
    \/ \E i \in 1..Len(inflight) : previewOperation_resumed(i)
    \/ \E i \in 1..Len(inflight) : undo_resumed(i)
    \/ \E i \in 1..Len(inflight) : reset_resumed(i)
    \/ \E i \in 1..Len(inflight) : ServeFail(i)
    \/ \E i \in 1..Len(inflight) : ServeUploadDxf(i)
    \/ \E i \in 1..Len(inflight) : ServeGetPreview(i)
    \/ \E i \in 1..Len(inflight) : ServeAnalyzeParts(i)
    \/ \E i \in 1..Len(inflight) : ServePreviewOperation(i)
    \/ \E i \in 1..Len(inflight) : ServeUndo(i)
    \/ \E i \in 1..Len(inflight) : ServeDeleteSession(i)

SpecReset == InitOverlap /\ [][NextReset]_vars

\* the service answers a remote call
Served ==
    \E i \in 1..Len(inflight) :
        \/ ServeFail(i)
        \/ ServeUploadDxf(i)
        \/ ServeGetPreview(i)
        \/ ServeAnalyzeParts(i)
        \/ ServePreviewOperation(i)
        \/ ServeExecuteOperation(i)
        \/ ServeUndo(i)
        \/ ServeRedo(i)
        \/ ServeInterpret(i)
        \/ ServeDeleteSession(i)
\* the event loop runs the continuation of an answered call
Resumed ==
    \E i \in 1..Len(inflight) :
        \/ uploadFile_uploaded(i)
        \/ uploadFile_previewed(i)
        \/ analyzeParts_settled(i)
        \/ interpretCommand_resumed(i)
        \/ previewOperation_resumed(i)
        \/ executeOperation_resumed(i)
        \/ cancelOperation_resumed(i)
        \/ undo_resumed(i)
        \/ redo_resumed(i)
        \/ reset_resumed(i)

\* One operation at a time, every remote call is answered in the end and
\* every answer is handed to its continuation; the caller need not go on.
SpecFair == Spec /\ WF_vars(Served) /\ WF_vars(Resumed)

\* The life of the component up to and including its teardown.
NextTeardown ==
    \/ Next
    \/ teardown
    \/ \E i \in 1..Len(inflight) : teardown_settled(i)

SpecTeardown == Init /\ [][NextTeardown]_vars

\* ------------------------------------------------------------ properties
\* the remote calls of a kind that have been issued and not yet served
SentCount(f, call) ==
    Cardinality({i \in 1..Len(f) : f[i].phase = "sent" /\ f[i].call = call})
\* this step issues a remote call of the kind
Issues(call) == SentCount(inflight', call) > SentCount(inflight, call)
AllCalls == {"uploadDxf", "getPreview", "analyzeParts", "previewOperation",
             "executeOperation", "interpretCommand", "deleteSession", "undo",
             "redo"}
\* this step delivers the response of task i to its continuation
Delivers(i) ==
    /\ inflight[i].phase = "done"
    /\ inflight' \in {RemoveAt(inflight, i)}
\* this step hands the response of task i to its continuation, which ends
\* the operation or goes on with its next remote call
Consumes(i) ==
    /\ inflight[i].phase = "done"
    /\ \/ inflight' = RemoveAt(inflight, i)
       \/ /\ Len(inflight') = Len(inflight)
          /\ inflight'[i] # inflight[i]
          /\ \A j \in 1..Len(inflight) : j # i => inflight'[j] = inflight[j]
\* the committed document of a live session changes in this step
DocChanges(sid) ==
    /\ sessions[sid].live
    /\ sessions'[sid].live
    /\ <<sessions'[sid].timeline, sessions'[sid].cursor>>
         # <<sessions[sid].timeline, sessions[sid].cursor>>
Mutating == {"executeOperation", "undo", "redo"}

\* C1: pendingCommand is non-null only while state is 'previewing'; in every
\* other state it is null.
C1_PendingOnlyWhilePreviewing ==
    pendingCommand # Null => state = "previewing"

\* C2: a preview never mutates the committed document.  previewOperation
\* (and interpretCommand through it) issues only the preview call; commit,
\* undo and redo calls are issued only by executeOperation, undo and redo;
\* the committed document of a session changes only when the service serves
\* one of these three; so as long as none of them has been called the
\* document is the one uploaded.
C2_Untouched ==
    ( /\ Live(sessionIdRef)
      /\ operationHistory = << >>
      /\ \A i \in 1..Len(inflight) : inflight[i].op \notin Mutating )
    => Doc(sessionIdRef) = << >>
C2_PreviewNeverCommits ==
    [][ /\ \A call \in Mutating : Issues(call) => lastOp' = Step(call, "call")
        /\ ( lastOp'.op = "previewOperation" \/ lastOp'.op = "interpretCommand" )
             => \A call \in AllCalls \ {"previewOperation", "interpretCommand"} :
                    ~Issues(call)
        /\ \A sid \in 1..MaxSessions :
             DocChanges(sid) => /\ lastOp'.op = "service"
                                /\ lastOp'.ev \in Mutating
        /\ C2_Untouched' ]_vars
C2_Witness ==
    /\ lastOp = Step("previewOperation", "ok")
    /\ svg.kind = "preview"
    /\ state = "previewing"
    /\ Live(sessionIdRef)
    /\ Doc(sessionIdRef) = << >>

\* C3: a cancelOperation whose view re-fetch succeeds ends with the visible
\* view equal to the view of the session's committed document, with no
\* pending command, no notice, and state 'ready'.
C3_CancelRestoresCommittedView ==
    lastOp = Step("cancelOperation", "ok")
    => /\ state = "ready"
       /\ pendingCommand = Null
       /\ error = NoError
       /\ Live(sessionIdRef)
       /\ svg = Render(Doc(sessionIdRef))
C3_Witness ==
    /\ lastOp = Step("cancelOperation", "ok")
    /\ operationHistory = << >>
    /\ Live(sessionIdRef)
    /\ Doc(sessionIdRef) = << >>
    /\ svg = Render(<< >>)
    /\ state = "ready"

\* C4: for every step other than reset the history is extended by exactly
\* the returned result when the step completes a successful executeOperation,
\* undo or redo, and is unchanged in every other case, failed attempts
\* included.
C4_HistoryCountsSuccesses ==
    [][ lastOp'.op # "reset" =>
          IF /\ lastOp'.op \in Mutating
             /\ lastOp'.ev = "ok"
             /\ \E i \in 1..Len(inflight) :
                    /\ Delivers(i)
                    /\ inflight[i].op = lastOp'.op
                    /\ inflight[i].res.ok
                    /\ inflight[i].res.success
          THEN \E i \in 1..Len(inflight) :
                    /\ Delivers(i)
                    /\ operationHistory' = Append(operationHistory, inflight[i].res)
          ELSE operationHistory' = operationHistory ]_vars

\* C5: executeOperation called with no pending command issues no remote
\* call and leaves state, view, history, notice and pendingCommand as they
\* were.
C5_ExecuteWithoutPendingIsNoOp ==
    [][ ( /\ lastOp'.op = "executeOperation"
          /\ lastOp'.ev \in {"call", "noop"}
          /\ pendingCommand = Null )
        => /\ inflight' = inflight
           /\ UNCHANGED <<state, svg, operationHistory, error, pendingCommand>>
           /\ UNCHANGED serverVars ]_vars
C5_Witness ==
    /\ lastOp = Step("executeOperation", "noop")
    /\ pendingCommand = Null
    /\ sessionIdRef # NullSid
    /\ inflight = << >>

\* C6: after a failed preview call the state is 'ready', an error message is
\* set, pendingCommand is null, and an executeOperation that follows issues
\* no remote call.
C6_FailedPreviewClearsPending ==
    [][ /\ ( lastOp = Step("previewOperation", "fail")
             => /\ state = "ready"
                /\ error # NoError
                /\ pendingCommand = Null )'
        /\ ( lastOp = Step("previewOperation", "fail")
             /\ lastOp'.op = "executeOperation" ) => inflight' = inflight ]_vars

\* C7: after a failed commit call pendingCommand is null, an error message
\* is set, state is 'ready', the history is as before, and a further
\* executeOperation issues no commit call.
C7_FailedCommitConsumesPending ==
    [][ /\ ( lastOp = Step("executeOperation", "fail")
             => /\ state = "ready"
                /\ error # NoError
                /\ pendingCommand = Null )'
        /\ lastOp' = Step("executeOperation", "fail")
             => operationHistory' = operationHistory
        /\ ( lastOp = Step("executeOperation", "fail")
             /\ lastOp'.op = "executeOperation" ) => ~Issues("executeOperation") ]_vars

\* C8: executeOperation with a staged command enters 'executing' and sends
\* the staged command's operation and params for commit; when the commit
\* succeeds it ends with the view of the committed result, the result
\* appended to the history, no pending command, no notice and state 'ready'
\* (history length 1 after the first commit).
C8_CommitCompletes ==
    [][ /\ lastOp' = Step("executeOperation", "call")
          => /\ pendingCommand # Null
             /\ state' = "executing"
             /\ Len(inflight') = Len(inflight) + 1
             /\ LET t == inflight'[Len(inflight')]
                IN /\ t.call = "executeOperation"
                   /\ t.phase = "sent"
                   /\ t.sid = sessionIdRef
                   /\ Operation(t.cmd) = Operation(pendingCommand)
                   /\ Params(t.cmd) = Params(pendingCommand)
        /\ \A i \in 1..Len(inflight) :
             ( /\ lastOp' = Step("executeOperation", "ok")
               /\ Delivers(i)
               /\ inflight[i].op = "executeOperation"
               /\ inflight[i].res.success )
             => /\ svg' = inflight[i].res.svg
                /\ svg' = Render(Doc(inflight[i].sid))
                /\ operationHistory' = Append(operationHistory, inflight[i].res)
                /\ pendingCommand' = Null
                /\ error' = NoError
                /\ state' = "ready"
                /\ operationHistory = << >> => Len(operationHistory') = 1 ]_vars
C8_Witness ==
    /\ lastOp = Step("executeOperation", "ok")
    /\ Len(operationHistory) = 1
    /\ operationHistory[1].success
    /\ state = "ready"
    /\ pendingCommand = Null
    /\ Live(sessionIdRef)
    /\ Len(Doc(sessionIdRef)) = 1
    /\ svg = Render(Doc(sessionIdRef))

\* C9: whenever an upload has failed (state 'error') the session identifier
\* is null, so no later operation reaches the service for a partial session.
C9_ErrorMeansNoSession ==
    state = "error" => sessionIdRef = NullSid

\* C10: while uploadFile awaits, state is 'loading'; when it succeeds state
\* is 'ready', the session identifier is the created session, and the current
\* and the original view both are the initial view of that session.
C10_UploadEndsReady ==
    /\ (\E i \in 1..Len(inflight) : inflight[i].op = "uploadFile")
         => state = "loading"
    /\ lastOp = Step("uploadFile", "ok")
         => /\ state = "ready"
            /\ sessionIdRef = created
            /\ Live(sessionIdRef)
            /\ dxfInfo = Info(sessionIdRef)
            /\ svg = Render(Doc(sessionIdRef))
            /\ originalSvg = svg
C10_Witness ==
    /\ lastOp = Step("uploadFile", "ok")
    /\ state = "ready"
    /\ sessionIdRef # NullSid
    /\ originalSvg = Render(<< >>)
    /\ svg = originalSvg

\* C11: when reset returns, whether the release of the remote session
\* succeeded or failed, state is 'initial', the session identifier and the
\* document info are null, the parts are empty, the current view and the
\* original view are empty, pendingCommand is null, the history is empty and
\* error is null.
C11_ResetClearsEverything ==
    lastOp = Step("reset", "ok")
    => /\ state = "initial"
       /\ sessionIdRef = NullSid
       /\ dxfInfo = NullInfo
       /\ parts = << >>
       /\ svg = EmptySvg
       /\ originalSvg = EmptySvg
       /\ pendingCommand = Null
       /\ operationHistory = << >>
       /\ error = NoError

\* C12: with a null session identifier, a call of interpretCommand,
\* previewOperation, executeOperation, cancelOperation, undo or redo issues
\* no remote call, leaves state, view, pendingCommand and history as they
\* were, and records a local error.
NeedSession == {"interpretCommand", "previewOperation", "executeOperation",
                "cancelOperation", "undo", "redo"}
C12_NullSessionIsReportedNoOp ==
    [][ ( /\ lastOp'.op \in NeedSession
          /\ lastOp'.ev \in {"call", "noop"}
          /\ sessionIdRef = NullSid )
        => /\ inflight' = inflight
           /\ UNCHANGED <<state, svg, pendingCommand, operationHistory>>
           /\ UNCHANGED serverVars
           /\ error' # NoError ]_vars

\* C13: an operation whose remote call failed (the promise was rejected)
\* has caught the failure when it returns: the error field holds a message
\* and state is 'ready' (for uploadFile: 'error'); and once no operation
\* awaits a response, state is neither 'loading' nor 'executing'.
Catching == {"interpretCommand", "previewOperation", "executeOperation",
             "undo", "redo"}
C13_FailuresAreCaught ==
    /\ ( lastOp.op \in Catching /\ lastOp.ev = "fail" )
         => state = "ready" /\ error # NoError
    /\ lastOp = Step("uploadFile", "fail")
         => state = "error" /\ error # NoError
    /\ Quiet => state \notin {"loading", "executing"}
C13_Witness ==
    /\ lastOp = Step("previewOperation", "fail")
    /\ state = "ready"
    /\ error = Msg("preview_failed")
    /\ sessionIdRef # NullSid
    /\ inflight = << >>

\* the identifiers of the part of that name in the part list, none if the
\* list holds no such part
HandlesOf(name, ps) ==
    IF Present(ps, name) THEN PartHandles(FindPart(ps, name)) ELSE << >>
\* the identifiers of the selected parts that are in the part list
SelectedIds ==
    UNION {Range(HandlesOf(selectedParts[k], parts)) : k \in 1..Len(selectedParts)}
\* the identifiers of the part the pointer is over
HoveredIds == IF hovered = Null THEN {} ELSE Range(HandlesOf(hovered, parts))

\* C14: in every reachable state of the App the highlighted identifiers are,
\* without duplicates, exactly the identifiers (anchor and linked) of the
\* selected parts present in the part list together with those of the part
\* the pointer is over, if any.
C14_HighlightIsSelectionPlusHover ==
    /\ Range(highlightedHandles) = SelectedIds \cup HoveredIds
    /\ Cardinality(Range(highlightedHandles)) = Len(highlightedHandles)

\* C15: a toggle of part name p flips the membership of p in the selection
\* and of no other name, and a second toggle of p gives back the membership
\* the selection had before the first.
C15_ToggleTwiceRestores ==
    [][ \A p \in PartNames :
          lastOp' = Step("handleTogglePartSelection", p)
          => /\ (p \in Range(selectedParts')) = (p \notin Range(selectedParts))
             /\ \A q \in PartNames \ {p} :
                  (q \in Range(selectedParts')) = (q \in Range(selectedParts))
             /\ Range(Toggle(selectedParts', p)) = Range(selectedParts) ]_vars
C15_Witness ==
    /\ lastOp = Step("handleTogglePartSelection", "DF-01")
    /\ selectedParts = <<"DF-02", "DF-03", "DF-01">>

\* C16: right after a hover-enter on part name p the hover identifiers are
\* p's anchor and linked identifiers, none if the part list holds no part of
\* that name; right after a hover-leave there are none.
C16_HoverIsReplaced ==
    /\ \A p \in PartNames :
         lastOp = Step("handleHoverPart", p)
         => hoverHandles = HandlesOf(p, parts)
    /\ lastOp.op = "handleLeavePart" => hoverHandles = << >>

\* C17: when the interpretation response reports success = false or an
\* empty command list, interpretCommand returns with state 'ready' and the
\* response's message as the notice, stages no command and issues no remote
\* call; when the interpretation call fails it returns with state 'ready' and
\* an error, and stages no command and issues no remote call either.
C17_RejectedInterpretation ==
    [][ \A i \in 1..Len(inflight) :
          ( /\ Consumes(i)
            /\ inflight[i].op = "interpretCommand"
            /\ LET r == inflight[i].res
               IN ~r.ok \/ ~r.success \/ r.commands = << >> )
          => /\ lastOp'.op = "interpretCommand"
             /\ state' = "ready"
             /\ error' # NoError
             /\ inflight[i].res.ok => error' = inflight[i].res.message
             /\ pendingCommand' = pendingCommand
             /\ \A call \in AllCalls : ~Issues(call) ]_vars
C17_Witness ==
    /\ lastOp = Step("interpretCommand", "rejected")
    /\ state = "ready"
    /\ error = Msg("not_understood")
    /\ pendingCommand = Null
    /\ inflight = << >>

\* C18: when the interpretation response succeeds with a non-empty command
\* list, interpretCommand stages the first command of the list and issues one
\* remote call, a preview of that command for the session; the continuation
\* of that preview stages nothing else and issues no further call.
C18_FirstCommandIsPreviewed ==
    [][ /\ \A i \in 1..Len(inflight) :
             ( /\ Consumes(i)
               /\ inflight[i].op = "interpretCommand"
               /\ LET r == inflight[i].res
                  IN r.ok /\ r.success /\ r.commands # << >> )
             => /\ lastOp' = Step("interpretCommand", "staged")
                /\ pendingCommand' = Head(inflight[i].res.commands)
                /\ SentCount(inflight', "previewOperation")
                     = SentCount(inflight, "previewOperation") + 1
                /\ \A call \in AllCalls \ {"previewOperation"} : ~Issues(call)
                /\ Len(inflight') = Len(inflight)
                /\ inflight'[i].call = "previewOperation"
                /\ inflight'[i].phase = "sent"
                /\ inflight'[i].cmd = Head(inflight[i].res.commands)
                /\ inflight'[i].sid = sessionIdRef
        /\ ( lastOp'.op = "previewOperation" /\ lastOp'.ev \in {"ok", "fail"} )
             => /\ pendingCommand' = pendingCommand
                /\ \A call \in AllCalls : ~Issues(call) ]_vars
C18_Witness ==
    /\ lastOp = Step("interpretCommand", "staged")
    /\ pendingCommand = "c2"
    /\ state = "previewing"
    /\ Len(inflight) = 1
    /\ inflight[1].call = "previewOperation"
    /\ inflight[1].cmd = "c2"
    /\ inflight[1].phase = "sent"

\* C19: undo and redo with a live session enter 'executing' and issue one
\* remote call of their kind; when the call succeeds the view becomes the
\* view of the result, the notice the fixed message (reverted / reapplied)
\* and state 'ready'; when it fails an error is set, the view and the history
\* are as before, and state is 'ready'.
Revert == {"undo", "redo"}
DoneNotice(op) == IF op = "undo" THEN Msg("undone") ELSE Msg("redone")
C19_UndoRedoOutcome ==
    [][ /\ \A op \in Revert :
             lastOp' = Step(op, "call")
             => /\ state' = "executing"
                /\ SentCount(inflight', op) = SentCount(inflight, op) + 1
                /\ \A call \in AllCalls \ {op} : ~Issues(call)
        /\ \A i \in 1..Len(inflight) :
             ( Consumes(i) /\ inflight[i].op \in Revert )
             => /\ state' = "ready"
                /\ IF inflight[i].res.ok /\ inflight[i].res.success
                   THEN /\ svg' = inflight[i].res.svg
                        /\ error' = DoneNotice(inflight[i].op)
                   ELSE /\ error' \notin {NoError, DoneNotice(inflight[i].op)}
                        /\ svg' = svg
                        /\ operationHistory' = operationHistory ]_vars

\* C20: every change of state follows an edge of the stated machine:
\* initial to loading, loading to ready, ready to previewing and back, ready
\* to executing and back, any state to error, any state to initial by reset.
StatedEdges == {<<"initial", "loading">>, <<"loading", "ready">>,
                <<"ready", "previewing">>, <<"previewing", "ready">>,
                <<"ready", "executing">>, <<"executing", "ready">>}
C21_UploadOnlyFromInitial ==
    [][ /\ ( lastOp' = Step("uploadFile", "call") /\ state # "initial" )
             => /\ inflight' = inflight
                /\ UNCHANGED hookVars
        /\ ( sessionIdRef # NullSid /\ sessionIdRef' # sessionIdRef )
             => sessionIdRef' = NullSid ]_vars

\* C22: one command is staged at a time.  A call of previewOperation stages
\* the command it is called with, whatever was staged before, and sends that
\* command for preview; the continuation of a preview leaves the staged
\* command alone; and executeOperation sends the operation and params of the
\* command staged at that moment.
C22_LatestPreviewIsStaged ==
    [][ /\ lastOp' = Step("previewOperation", "call")
             => LET t == inflight'[Len(inflight')]
                IN /\ Len(inflight') = Len(inflight) + 1
                   /\ t.call = "previewOperation"
                   /\ t.cmd \in Commands
                   /\ pendingCommand' = t.cmd
        /\ ( lastOp'.op = "previewOperation" /\ lastOp'.ev \in {"ok", "fail"} )
             => pendingCommand' = pendingCommand
        /\ lastOp' = Step("executeOperation", "call")
             => LET t == inflight'[Len(inflight')]
                IN /\ t.call = "executeOperation"
                   /\ Operation(t.cmd) = Operation(pendingCommand)
                   /\ Params(t.cmd) = Params(pendingCommand)
                   /\ \A c \in Commands \ {pendingCommand} :
                        Operation(t.cmd) # Operation(c) ]_vars
\* c2 has been staged over the preview of c1, which the view still shows
C22_Witness ==
    /\ lastOp = Step("executeOperation", "call")
    /\ pendingCommand = "c2"
    /\ Len(inflight) = 1
    /\ inflight[1].call = "executeOperation"
    /\ inflight[1].cmd = "c2"
    /\ svg = PreviewSvg(<< >>, "c1")

\* C23: the part analysis is requested once by each upload that succeeds, in
\* the step that enters 'ready', and by nothing else; serving it and
\* settling it leave state, error, view, pendingCommand and history as they
\* are, and only a successful analysis writes the part list.
C23_AnalysisIsIndependent ==
    [][ /\ Issues("analyzeParts") <=> lastOp' = Step("uploadFile", "ok")
        /\ lastOp' = Step("uploadFile", "ok")
             => /\ state' = "ready"
                /\ SentCount(inflight', "analyzeParts")
                     = SentCount(inflight, "analyzeParts") + 1
                /\ \E i \in 1..Len(inflight') :
                     /\ inflight'[i].call = "analyzeParts"
                     /\ inflight'[i].phase = "sent"
                     /\ inflight'[i].sid = sessionIdRef'
        /\ ( lastOp'.op = "analyzeParts" \/ lastOp' = Step("service", "analyzeParts") )
             => /\ UNCHANGED <<state, error, svg, originalSvg, pendingCommand,
                               operationHistory, dxfInfo, sessionIdRef>>
                /\ lastOp' # Step("analyzeParts", "ok") => parts' = parts ]_vars
\* the analysis settles while a preview is shown
C23_Witness ==
    /\ lastOp = Step("analyzeParts", "ok")
    /\ state = "previewing"
    /\ pendingCommand # Null
    /\ parts = AnalysisResult(sessionIdRef)
    /\ svg.kind = "preview"

\* C24: teardown issues one release call for the session when a session
\* identifier is set and no call when it is null, and neither teardown nor
\* the outcome of the release, success or failure, changes state, views,
\* pendingCommand, history, parts or error.
C24_TeardownOnlyReleases ==
    [][ lastOp'.op = "teardown"
        => /\ UNCHANGED <<state, svg, originalSvg, pendingCommand,
                          operationHistory, parts, error, dxfInfo>>
           /\ \A call \in AllCalls \ {"deleteSession"} : ~Issues(call)
           /\ lastOp'.ev \in {"call", "noop"}
                => IF sessionIdRef = NullSid
                   THEN inflight' = inflight
                   ELSE /\ Len(inflight') = Len(inflight) + 1
                        /\ SentCount(inflight', "deleteSession")
                             = SentCount(inflight, "deleteSession") + 1
                        /\ inflight'[Len(inflight')].sid = sessionIdRef
           /\ lastOp'.ev \in {"released", "ignored"} => ~Issues("deleteSession") ]_vars
\* the release failed and the session is still live on the service
C24_Witness ==
    /\ lastOp = Step("teardown", "ignored")
    /\ ~mounted
    /\ state = "previewing"
    /\ pendingCommand # Null
    /\ sessionIdRef # NullSid
    /\ Live(sessionIdRef)
    /\ inflight = << >>

\* C25: at most one operation of the edit protocol (preview, commit, cancel,
\* undo, redo) has a remote call that has been issued and not yet answered.
EditOps == {"previewOperation", "executeOperation", "cancelOperation",
            "undo", "redo"}
EditsInFlight ==
    {i \in 1..Len(inflight) :
        inflight[i].op \in EditOps /\ inflight[i].phase = "sent"}
C25_OneEditInFlight == Cardinality(EditsInFlight) <= 1

\* C26: toggle, select-all and clear-selection leave the hover identifiers
\* as they are; hover-enter and hover-leave leave the selection as it is; and
\* none of the five changes state, pendingCommand, history, the views or any
\* other field of the session, or issues a remote call.
SelectionHandlers == {"handleTogglePartSelection", "handleSelectAll",
                      "handleClearSelection"}
HoverHandlers == {"handleHoverPart", "handleLeavePart"}
C26_SelectionAndHoverAreIndependent ==
    [][ /\ lastOp'.op \in SelectionHandlers => hoverHandles' = hoverHandles
        /\ lastOp'.op \in HoverHandlers => selectedParts' = selectedParts
        /\ lastOp'.op \in SelectionHandlers \cup HoverHandlers
             => /\ UNCHANGED <<state, pendingCommand, operationHistory, svg,
                               originalSvg, error, parts, dxfInfo, sessionIdRef>>
                /\ inflight' = inflight
                /\ UNCHANGED serverVars ]_vars
\* the selection is cleared while a part is hovered, in an uploaded session
C26_Witness ==
    /\ lastOp = Step("handleClearSelection", "set")
    /\ selectedParts = << >>
    /\ hoverHandles = <<"DF-01-anchor", "e1", "e2">>
    /\ highlightedHandles = hoverHandles
    /\ state = "ready"

\* C27: when every remote call is answered, a session in 'loading' or
\* 'executing' leaves that state (for 'ready', 'previewing', 'error' or
\* 'initial'); and with no remote call in flight state is neither 'loading'
\* nor 'executing'.
Transient == {"loading", "executing"}
Cancelled ==
    /\ state = "ready"
    /\ pendingCommand = Null
    /\ error = NoError
    /\ Live(sessionIdRef)
    /\ svg = Render(Doc(sessionIdRef))
C28_CancelIsFinal ==
    [][ /\ ( /\ Cancelled
             /\ lastOp'.op = "previewOperation"
             /\ lastOp'.ev \in {"ok", "fail"} )
           => svg' = svg /\ error' = error
        /\ ( state = "ready" /\ pendingCommand = Null => svg.kind # "preview" )' ]_vars

\* C29: whenever state is 'previewing' with a command staged and no preview
\* request in flight, a preview on screen is the preview of the staged
\* command, and an affected-count notice is the count of that preview.
PreviewsInFlight ==
    {i \in 1..Len(inflight) : inflight[i].call = "previewOperation"}
C29_ShownIsStaged ==
    ( /\ state = "previewing"
      /\ pendingCommand # Null
      /\ PreviewsInFlight = {} )
    => /\ svg.kind = "preview" => svg.cmd = pendingCommand
       /\ ( error.kind = "affected" /\ error.n # 0 /\ Live(sessionIdRef) )
            => error.n = AffectedCount(Doc(sessionIdRef), pendingCommand)

\* C30: a staged command is sent for commit at most once: an executeOperation
\* invoked right after another one, before the first commit has been
\* answered and with nothing staged in between, issues no commit call.
C30_OneCommitPerStaging ==
    [][ ( /\ lastOp = Step("executeOperation", "call")
          /\ lastOp'.op = "executeOperation" )
        => ~Issues("executeOperation") ]_vars

\* the hook as reset leaves it
Cleared ==
    /\ state = "initial"
    /\ sessionIdRef = NullSid
    /\ svg = EmptySvg
    /\ pendingCommand = Null
    /\ operationHistory = << >>
    /\ error = NoError
\* this step is the continuation of an operation other than uploadFile and
\* reset taking its response
LateResponse ==
    /\ lastOp'.op \in {"interpretCommand", "previewOperation",
                       "executeOperation", "cancelOperation", "undo", "redo"}
    /\ lastOp'.ev \notin {"call", "noop"}
    /\ \E i \in 1..Len(inflight) : Consumes(i)

\* C31: once reset has cleared the hook, the response of an operation that
\* was issued before the reset leaves it cleared: state 'initial', session
\* identifier null, view, pendingCommand, history and error empty.
C31_ResetIsStable ==
    [][ (Cleared /\ LateResponse) => Cleared' ]_vars

\* C32: the part list belongs to the live session: it is non-empty only while
\* a session identifier is set, so the analysis response of a session that
\* has been reset never populates it.
C32_PartsBelongToSession ==
    parts # << >> => sessionIdRef # NullSid

\* the operations of a session that are not uploadFile or reset
SessionOps == {"interpretCommand", "previewOperation", "executeOperation",
               "cancelOperation", "undo", "redo"}

\* C33: the original view is written only by a successful uploadFile, which
\* sets it to the initial view of the session it created; every step of
\* interpretCommand, previewOperation, executeOperation, cancelOperation,
\* undo and redo, successful or failed, leaves originalSvg unchanged.
C33_OriginalWrittenByUploadOnly ==
    [][ /\ lastOp'.op \in SessionOps => originalSvg' = originalSvg
        /\ originalSvg' # originalSvg =>
              /\ lastOp' = Step("uploadFile", "ok")
              /\ originalSvg' = svg'
              /\ originalSvg' = Render(<< >>) ]_vars
\* a commit has changed the view and the original view is still the one
\* obtained at upload
C33_Witness ==
    /\ lastOp = Step("executeOperation", "ok")
    /\ sessionIdRef # NullSid
    /\ originalSvg = Render(<< >>)
    /\ HasSvg(svg)
    /\ svg # originalSvg

====
